---- MODULE Spec2Model ----
(***************************************************************************)
(* Mesh coordination and control plane of the VSCode API exposure          *)
(* extension (src/src/extension.ts, class VSCodeAPIExposure).              *)
(*                                                                         *)
(* Every process runs one VSCodeAPIExposure instance on a single-threaded  *)
(* event loop.  Processes share the TCP port table of the host and the     *)
(* registry file.  A synchronous read-modify-write of the registry file is *)
(* two steps (the read and the write), because the file operations of      *)
(* different processes interleave; nothing else of the same process runs   *)
(* between them.  Time is counted in units of 60 seconds.  startServer and *)
(* stopServer of the same process do not overlap, except for the second    *)
(* startServer invocation of SpecReentry.  Each specification below runs a *)
(* part of the system: Spec the mesh of two processes, the others one      *)
(* feature each (router, expiry, broadcast, gateway, store, re-entry,      *)
(* stop, life cycle with restarts, request bodies, port exhaustion, and a  *)
(* heartbeat that is on time).                                             *)
(***************************************************************************)
EXTENDS Integers, Sequences, FiniteSets, TLC

\* ---------------------------------------------------------------- bounds
NumPorts == 2
MaxStarts == 1
MaxTime == 2
MaxDynamic == 2
MaxBroadcasts == 1
MaxRestarts == 1
MaxInput == 4
MaxChunk == 2

\* ------------------------------------------------------ program constants
PortMin == 3637
PortMax == PortMin + NumPorts - 1
UnitMs == 60 * 1000
CleanupStaleMs == 90 * 1000
HeartbeatMs == 60000
DiscoveryFreshMs == 2 * 60 * 1000
PeerStaleMs == 60000

Procs == {1, 2}
Ports == PortMin..PortMax

\* Session ids: the constructor's '' and one uuid per generateSessionInfoAtomic.
EmptyId == <<0, 0>>
Ids == {EmptyId} \cup (Procs \X (1..(MaxStarts + MaxRestarts)))
Free == <<0, "free">>

\* Request inputs: a path a built-in GET route serves, one a built-in POST route
\* serves, a path nothing serves, and a path that Express reads as a pattern.
Paths == {"/health", "/exec", "/custom", "/:any"}
Payloads == {1, 2}
RouterModes == {"stack", "unavailable", "throws"}
NoRequest == [op |-> "none", path |-> "", payload |-> 0, status |-> 0,
              dyn |-> FALSE, servedPath |-> "", response |-> 0]
EmptyRegistry == [i \in {} |-> 0]
Damages == {"missing", "denied", "corrupt"}

\* JavaScript values the evaluated code can return, and the markers a JSON body
\* needs: Null for null, Absent for a key that is not in the body.
Num(n) == [type |-> "number", n |-> n]
NaN == [type |-> "NaN", n |-> 0]
Undefined == [type |-> "undefined", n |-> 0]
Circular == [type |-> "circular", n |-> 0]
Null == [type |-> "null", n |-> 0]
Absent == [type |-> "absent", n |-> 0]
False == [type |-> "boolean", n |-> 0]

\* The path of a request body of /add-endpoint and /remove-endpoint: a string,
\* a number, or nothing.  RoutePaths are the strings of the model that begin
\* with '/': the request paths and the paths of the two built-in routes.
Str(s) == [type |-> "string", s |-> s]
RoutePaths == Paths \cup {"/add-endpoint", "/remove-endpoint"}
BodyPaths == {Str(s) : s \in RoutePaths \cup {"", "custom"}} \cup {Undefined, Num(5)}

\* Request bodies of /exec-with-action: function bodies for code and onResult.
Codes == {"return 2", "return 3", "return 0/0", "return", "const o = {}; o.o = o; return o",
          "throw new Error('first')"}
Reactions == {"", "return result * 10", "return result", "throw new Error('second')"}
NoExec == [code |-> "", onResult |-> "", status |-> 0, success |-> Absent,
           result |-> Absent, actionResult |-> Absent, error |-> ""]
NoPeer == [sessionId |-> EmptyId, kind |-> "none", message |-> ""]

VARIABLES
    now,            \* Date.now() in units of 60 s
    portTable,      \* host TCP ports: Free, <<p, "test">> or <<p, "srv">>
    registry,       \* registry.json: session id -> [port, lastSeen]
    server,         \* this.server: "null", or a server that is "listening", "failed"
                    \* (its bind failed), "closing" or "closingFailed" (closed after that)
    sessionInfo,    \* this.sessionInfo: [id, serverPort, lastSeen, meshPeers]
    meshPeers,      \* this.meshPeers: session id -> [port, lastHeartbeat, isConnected]
    starts,         \* number of uuids a process has generated
    startPc,        \* position inside startServer / stopServer
    cand,           \* loop variable p of findAvailablePortAndBind
    outcome,        \* how the last startServer / stopServer promise settled
    rmw,            \* registry read-modify-write in flight ("none" if none)
    buf,            \* the registry object that read-modify-write holds
    heartbeatInterval,       \* heartbeat timer armed
    discoveryInterval,       \* discovery timer armed
    registryCleanupInterval, \* cleanup timer armed
    stack,          \* the route layers of this.app._router.stack, in order
    dynamicEndpoints,        \* this.dynamicEndpoints: path -> response payload
    routerMode,     \* what removeDynamicEndpoint finds: "stack", "unavailable", "throws"
    lastReq,        \* the last HTTP exchange of a session: the request and its response
    bcPc,           \* broadcastToMesh: "idle", "await" (inside await httpPost) or "returned"
    bcCur,          \* the peer whose httpPost is awaited and how that request ends
    bcDone,         \* the entries of meshPeers the broadcast's iterator has passed
    results,        \* the results array of the broadcast
    bcIssued,       \* the keys of meshPeers when the broadcast was issued
    broadcasts,     \* number of broadcasts a session has issued
    lastExec,       \* the last POST /exec-with-action of a session and its response
    fileState,      \* the registry file: "ok", "missing", "denied" (no access) or "corrupt"
    startPcB,       \* position of a second startServer invocation that overlaps the first
    candB,          \* loop variable p of that invocation's findAvailablePortAndBind
    received,       \* socket bridge: the text a client has written on its connection
    acc,            \* socket bridge: acc, the text of the connection not yet split
    sent,           \* socket bridge: the response lines written on the connection
    pending         \* socket bridge: the requests whose exec is awaited

timers == <<heartbeatInterval, discoveryInterval, registryCleanupInterval>>
routing == <<stack, dynamicEndpoints>>
http == <<routerMode, lastReq>>
broadcast == <<bcPc, bcCur, bcDone, results, bcIssued, broadcasts>>
broadcastRest == <<bcPc, bcCur, results, bcIssued, broadcasts>>
bridge == <<received, acc, sent, pending>>
gateway == <<lastExec, bridge>>
store == <<fileState>>
reentry == <<startPcB, candB>>
calls == <<broadcast, gateway, store, reentry>>
vars == <<now, portTable, registry, server, sessionInfo, meshPeers, starts, startPc, cand,
          outcome, rmw, buf, timers, routing, http, calls>>

\* ---------------------------------------------------------------- helpers
Without(r, ids) == [i \in (DOMAIN r) \ ids |-> r[i]]
With(r, id, rec) == [i \in (DOMAIN r) \cup {id} |-> IF i = id THEN rec ELSE r[i]]
AgeMs(t) == (now - t) * UnitMs
Record(info) == [port |-> info.serverPort, lastSeen |-> info.lastSeen]

\* The iterator of a broadcast in flight after the peer table has changed: a
\* deleted entry is no longer one the iterator has passed (set again, it is a
\* new entry at the end of the Map).
Passed(p, peers) == [bcDone EXCEPT ![p] = @ \cap DOMAIN peers]

\* ------------------------------------------------------------------ store
\* readRegistry without its existsSync test and its try/catch: whatever the
\* file held last comes back.
ReadRegistryUnguarded == registry

\* readRegistry: the parsed file, or {} when the file does not exist or
\* readFileSync or JSON.parse throws.
ReadRegistry == IF fileState = "ok" THEN registry ELSE EmptyRegistry

\* writeRegistry(reg): the file holds reg, or the write throws, the error is
\* logged and the file stays as it is.
Written(reg) == IF fileState = "denied" THEN registry ELSE reg
WrittenState == IF fileState = "denied" THEN "denied" ELSE "ok"

\* ----------------------------------------------------------------- router
Builtin(method, path) == [method |-> method, path |-> path, dyn |-> FALSE, response |-> 0]
Dynamic(path, response) == [method |-> "GET", path |-> path, dyn |-> TRUE, response |-> response]

\* The routes setupExpress registers, in registration order.
BuiltinStack ==
    << Builtin("GET", "/session"), Builtin("POST", "/add-endpoint"),
       Builtin("POST", "/remove-endpoint"), Builtin("POST", "/exec"),
       Builtin("GET", "/health") >>

\* The splice loop of removeDynamicEndpoint: every layer whose route.path equals
\* the path goes, whoever registered it.
SpliceRoutes(st, path) ==
    LET Keep(l) == l.path # path IN SelectSeq(st, Keep)

\* removeDynamicEndpoint(path): the stack is spliced only when the router's
\* stack is there and the loop does not throw; the map entry always goes.
RemovedStack(st, path, mode) == IF mode = "stack" THEN SpliceRoutes(st, path) ELSE st
RemovedMap(de, path) == Without(de, {path})

\* for (const path of Array.from(this.dynamicEndpoints.keys())) removeDynamicEndpoint(path)
RECURSIVE RemoveAllStack(_, _, _)
RemoveAllStack(st, paths, mode) ==
    IF paths = {} THEN st
    ELSE LET path == CHOOSE x \in paths : TRUE
         IN RemoveAllStack(RemovedStack(st, path, mode), paths \ {path}, mode)

\* Express matches a request path against a route path as a pattern.
Matches(routePath, url) == routePath = url \/ routePath = "/:any"

\* Router.handle: the index of the first layer whose path matches and whose
\* route handles the method; 0 when the request falls through to the 404.
FirstMatch(st, method, url) ==
    LET hits == {i \in 1..Len(st) : st[i].method = method /\ Matches(st[i].path, url)}
    IN IF hits = {} THEN 0 ELSE CHOOSE i \in hits : \A j \in hits : i <= j

DynamicCount(st) == Cardinality({i \in 1..Len(st) : st[i].dyn})

\* The response to GET url: the first matching layer answers.
GetResponse(st, url) ==
    LET i == FirstMatch(st, "GET", url)
    IN IF i = 0
       THEN [op |-> "get", path |-> url, payload |-> 0, status |-> 404,
             dyn |-> FALSE, servedPath |-> "", response |-> 0]
       ELSE [op |-> "get", path |-> url, payload |-> 0, status |-> 200,
             dyn |-> st[i].dyn, servedPath |-> st[i].path, response |-> st[i].response]

\* No handler of process p is in the middle of a synchronous block.
Quiet(p) == rmw[p] = "none" /\ startPc[p] \notin {"register"}
\* Nothing on the host is inside a synchronous block (they last far less than a time unit).
AllQuiet == \A p \in Procs : rmw[p] = "none"

Init ==
    /\ now = 0
    /\ portTable = [c \in Ports |-> Free]
    /\ registry = EmptyRegistry
    /\ server = [p \in Procs |-> "null"]
    /\ sessionInfo = [p \in Procs |->
            [id |-> EmptyId, serverPort |-> 0, lastSeen |-> 0, meshPeers |-> {}]]
    /\ meshPeers = [p \in Procs |-> EmptyRegistry]
    /\ starts = [p \in Procs |-> 0]
    /\ startPc = [p \in Procs |-> "idle"]
    /\ cand = [p \in Procs |-> PortMin]
    /\ outcome = [p \in Procs |-> "none"]
    /\ rmw = [p \in Procs |-> "none"]
    /\ buf = [p \in Procs |-> EmptyRegistry]
    /\ heartbeatInterval = [p \in Procs |-> TRUE]
    /\ discoveryInterval = [p \in Procs |-> TRUE]
    /\ registryCleanupInterval = [p \in Procs |-> TRUE]
    /\ stack = [p \in Procs |-> BuiltinStack]
    /\ dynamicEndpoints = [p \in Procs |-> EmptyRegistry]
    /\ routerMode = "stack"
    /\ lastReq = [p \in Procs |-> NoRequest]
    /\ bcPc = [p \in Procs |-> "idle"]
    /\ bcCur = [p \in Procs |-> NoPeer]
    /\ bcDone = [p \in Procs |-> {}]
    /\ results = [p \in Procs |-> << >>]
    /\ bcIssued = [p \in Procs |-> {}]
    /\ broadcasts = [p \in Procs |-> 0]
    /\ lastExec = [p \in Procs |-> NoExec]
    /\ fileState = "ok"
    /\ startPcB = [p \in Procs |-> "idle"]
    /\ candB = [p \in Procs |-> PortMin]
    /\ received = << >> /\ acc = << >> /\ sent = << >> /\ pending = << >>

\* isServerRunning(): this.server !== null
isServerRunning(p) == server[p] # "null"

\* ------------------------------------------------------------ startServer
\* startServer entry: returns at once when this.server is set.
StartServer(p) ==
    /\ startPc[p] = "idle" /\ Quiet(p)
    /\ server[p] = "null"
    /\ starts[p] < MaxStarts
    /\ startPc' = [startPc EXCEPT ![p] = "probe"]
    /\ cand' = [cand EXCEPT ![p] = PortMin]
    /\ outcome' = [outcome EXCEPT ![p] = "pending"]
    /\ UNCHANGED <<now, portTable, registry, server, sessionInfo, meshPeers, starts, rmw, buf,
                   timers, routing, http, calls>>

\* startServer entry once more, after a stopServer of the process has completed
\* (the start, stop and toggle commands of activate).
StartServerAfterStop(p) ==
    /\ startPc[p] = "idle" /\ Quiet(p)
    /\ server[p] = "null"
    /\ outcome[p] = "stopped"
    /\ starts[p] < MaxStarts + MaxRestarts
    /\ startPc' = [startPc EXCEPT ![p] = "probe"]
    /\ cand' = [cand EXCEPT ![p] = PortMin]
    /\ outcome' = [outcome EXCEPT ![p] = "pending"]
    /\ UNCHANGED <<now, portTable, registry, server, sessionInfo, meshPeers, starts, rmw, buf,
                   timers, routing, http, calls>>

\* findAvailablePortAndBind without its final throw: after the last port has
\* failed the loop's last candidate is returned.
ProbeNeverThrows(p) ==
    /\ startPc[p] = "probe" /\ Quiet(p)
    /\ IF portTable[cand[p]] = Free
       THEN /\ portTable' = [portTable EXCEPT ![cand[p]] = <<p, "test">>]
            /\ startPc' = [startPc EXCEPT ![p] = "release"]
            /\ UNCHANGED <<cand, outcome>>
       ELSE IF cand[p] < PortMax
       THEN /\ cand' = [cand EXCEPT ![p] = cand[p] + 1]
            /\ UNCHANGED <<portTable, startPc, outcome>>
       ELSE /\ startPc' = [startPc EXCEPT ![p] = "listen"]
            /\ UNCHANGED <<portTable, cand, outcome>>
    /\ UNCHANGED <<now, registry, server, sessionInfo, meshPeers, starts, rmw, buf,
                   timers, routing, http, calls>>

\* testServer.listen(p): the bind succeeds (the test server holds the port),
\* or fails and the loop goes to the next port, or throws after the last one.
Probe(p) ==
    /\ startPc[p] = "probe" /\ Quiet(p)
    /\ IF portTable[cand[p]] = Free
       THEN /\ portTable' = [portTable EXCEPT ![cand[p]] = <<p, "test">>]
            /\ startPc' = [startPc EXCEPT ![p] = "release"]
            /\ UNCHANGED <<cand, outcome>>
       ELSE IF cand[p] < PortMax
       THEN /\ cand' = [cand EXCEPT ![p] = cand[p] + 1]
            /\ UNCHANGED <<portTable, startPc, outcome>>
       ELSE /\ startPc' = [startPc EXCEPT ![p] = "idle"]
            /\ outcome' = [outcome EXCEPT ![p] = "exhausted"]
            /\ cand' = [cand EXCEPT ![p] = PortMin]
            /\ UNCHANGED portTable
    /\ UNCHANGED <<now, registry, server, sessionInfo, meshPeers, starts, rmw, buf,
                   timers, routing, http, calls>>

\* testServer.close(() => resolve()): the probed port is free again.
Release(p) ==
    /\ startPc[p] = "release" /\ Quiet(p)
    /\ portTable' = [portTable EXCEPT ![cand[p]] = Free]
    /\ startPc' = [startPc EXCEPT ![p] = "listen"]
    /\ UNCHANGED <<now, registry, server, sessionInfo, meshPeers, starts, cand, outcome, rmw, buf,
                   timers, routing, http, calls>>

\* generateSessionInfoAtomic's return value
NewSessionInfo(p, port) ==
    [id |-> <<p, starts[p] + 1>>, serverPort |-> port, lastSeen |-> now, meshPeers |-> {}]

\* Listen with the 'error' event of a failed bind taken for success.
ListenErrorIgnored(p) ==
    /\ startPc[p] = "listen" /\ Quiet(p)
    /\ sessionInfo' = [sessionInfo EXCEPT ![p] = NewSessionInfo(p, cand[p])]
    /\ starts' = [starts EXCEPT ![p] = starts[p] + 1]
    /\ server' = [server EXCEPT ![p] = "listening"]
    /\ startPc' = [startPc EXCEPT ![p] = "register"]
    /\ portTable' = [portTable EXCEPT ![cand[p]] =
            IF @ = Free THEN <<p, "srv">> ELSE @]
    /\ cand' = [cand EXCEPT ![p] = PortMin]
    /\ UNCHANGED <<now, registry, meshPeers, outcome, rmw, buf, timers, routing, http, calls>>

\* The continuation of startServer: this.sessionInfo is replaced and
\* this.server = this.app.listen(port, cb) binds the port or emits 'error'.
Listen(p) ==
    /\ startPc[p] = "listen" /\ Quiet(p)
    /\ sessionInfo' = [sessionInfo EXCEPT ![p] = NewSessionInfo(p, cand[p])]
    /\ starts' = [starts EXCEPT ![p] = starts[p] + 1]
    /\ IF portTable[cand[p]] = Free
       THEN /\ portTable' = [portTable EXCEPT ![cand[p]] = <<p, "srv">>]
            /\ server' = [server EXCEPT ![p] = "listening"]
            /\ startPc' = [startPc EXCEPT ![p] = "register"]
            /\ UNCHANGED outcome
       ELSE /\ server' = [server EXCEPT ![p] = "failed"]
            /\ startPc' = [startPc EXCEPT ![p] = "idle"]
            /\ outcome' = [outcome EXCEPT ![p] = "bindError"]
            /\ UNCHANGED portTable
    /\ cand' = [cand EXCEPT ![p] = PortMin]
    /\ UNCHANGED <<now, registry, meshPeers, rmw, buf, timers, routing, http, calls>>

\* The listen callback, first half: registerSession reads the registry.
RegisterRead(p) ==
    /\ startPc[p] = "register" /\ rmw[p] = "none"
    /\ rmw' = [rmw EXCEPT ![p] = "register"]
    /\ buf' = [buf EXCEPT ![p] = ReadRegistry]
    /\ UNCHANGED <<now, portTable, registry, server, sessionInfo, meshPeers, starts,
                   startPc, cand, outcome, timers, routing, http, calls>>

\* registerSession with the assignment of the own record left out.
RegisterMergeForgotten(p, reg) == reg

\* registry[this.sessionInfo.id] = this.sessionInfo
RegisterMerge(p, reg) == With(reg, sessionInfo[p].id, Record(sessionInfo[p]))

\* The listen callback, second half: registerSession writes, the promise resolves.
RegisterWrite(p) ==
    /\ rmw[p] = "register"
    /\ registry' = Written(RegisterMerge(p, buf[p]))
    /\ fileState' = WrittenState
    /\ rmw' = [rmw EXCEPT ![p] = "none"]
    /\ buf' = [buf EXCEPT ![p] = EmptyRegistry]
    /\ startPc' = [startPc EXCEPT ![p] = "idle"]
    /\ outcome' = [outcome EXCEPT ![p] = "started"]
    /\ UNCHANGED <<now, portTable, server, sessionInfo, meshPeers, starts, cand,
                   timers, routing, http, broadcast, gateway, reentry>>

\* ------------------------------------------- startServer, a second time
\* startServer is invoked while an earlier invocation awaits its port: the
\* entry test sees this.server null and the invocation goes on.
StartServerAgain(p) ==
    /\ startPc[p] \in {"probe", "release", "listen"} /\ Quiet(p)
    /\ startPcB[p] = "idle"
    /\ server[p] = "null"
    /\ startPcB' = [startPcB EXCEPT ![p] = "probe"]
    /\ candB' = [candB EXCEPT ![p] = PortMin]
    /\ UNCHANGED <<now, portTable, registry, server, sessionInfo, meshPeers, starts, startPc,
                   cand, outcome, rmw, buf, timers, routing, http, broadcast, gateway, store>>

\* testServer.listen(p) of the second invocation
ProbeB(p) ==
    /\ startPcB[p] = "probe" /\ Quiet(p)
    /\ IF portTable[candB[p]] = Free
       THEN /\ portTable' = [portTable EXCEPT ![candB[p]] = <<p, "test">>]
            /\ startPcB' = [startPcB EXCEPT ![p] = "release"]
            /\ UNCHANGED candB
       ELSE IF candB[p] < PortMax
       THEN /\ candB' = [candB EXCEPT ![p] = candB[p] + 1]
            /\ UNCHANGED <<portTable, startPcB>>
       ELSE /\ startPcB' = [startPcB EXCEPT ![p] = "idle"]
            /\ candB' = [candB EXCEPT ![p] = PortMin]
            /\ UNCHANGED portTable
    /\ UNCHANGED <<now, registry, server, sessionInfo, meshPeers, starts, startPc, cand,
                   outcome, rmw, buf, timers, routing, http, broadcast, gateway, store>>

\* testServer.close(() => resolve()) of the second invocation
ReleaseB(p) ==
    /\ startPcB[p] = "release" /\ Quiet(p)
    /\ portTable' = [portTable EXCEPT ![candB[p]] = Free]
    /\ startPcB' = [startPcB EXCEPT ![p] = "listen"]
    /\ UNCHANGED <<now, registry, server, sessionInfo, meshPeers, starts, startPc, cand,
                   outcome, rmw, buf, timers, routing, http, broadcast, gateway, store, candB>>

\* The continuation of the second invocation: this.sessionInfo and this.server
\* are assigned again; when the bind succeeds the listen callback follows at
\* once and registers the session info of that moment (no other process
\* writes the registry file meanwhile).
ListenB(p) ==
    /\ startPcB[p] = "listen" /\ Quiet(p)
    /\ sessionInfo' = [sessionInfo EXCEPT ![p] = NewSessionInfo(p, candB[p])]
    /\ starts' = [starts EXCEPT ![p] = starts[p] + 1]
    /\ IF portTable[candB[p]] = Free
       THEN /\ portTable' = [portTable EXCEPT ![candB[p]] = <<p, "srv">>]
            /\ server' = [server EXCEPT ![p] = "listening"]
            /\ registry' = Written(With(ReadRegistry, sessionInfo'[p].id,
                                        Record(sessionInfo'[p])))
            /\ fileState' = WrittenState
       ELSE /\ server' = [server EXCEPT ![p] = "failed"]
            /\ UNCHANGED <<portTable, registry, fileState>>
    /\ startPcB' = [startPcB EXCEPT ![p] = "idle"]
    /\ candB' = [candB EXCEPT ![p] = PortMin]
    /\ UNCHANGED <<now, meshPeers, startPc, cand, outcome, rmw, buf, timers, routing, http,
                   broadcast, gateway>>

\* ------------------------------------------------------------- stopServer
\* stopServer up to the read of deregisterSession: stopMeshNetworking clears the
\* heartbeat and discovery timers and the peer table, deregisterSession removes
\* every dynamic endpoint and reads the registry.
StopServer(p) ==
    /\ startPc[p] = "idle" /\ Quiet(p)
    /\ heartbeatInterval' = [heartbeatInterval EXCEPT ![p] = FALSE]
    /\ discoveryInterval' = [discoveryInterval EXCEPT ![p] = FALSE]
    /\ meshPeers' = [meshPeers EXCEPT ![p] = EmptyRegistry]
    /\ sessionInfo' = [sessionInfo EXCEPT ![p].meshPeers = {}]
    /\ stack' = [stack EXCEPT ![p] =
                    RemoveAllStack(stack[p], DOMAIN dynamicEndpoints[p], routerMode)]
    /\ dynamicEndpoints' = [dynamicEndpoints EXCEPT ![p] = EmptyRegistry]
    /\ rmw' = [rmw EXCEPT ![p] = "deregister"]
    /\ buf' = [buf EXCEPT ![p] = ReadRegistry]
    /\ startPc' = [startPc EXCEPT ![p] = "stopping"]
    /\ outcome' = [outcome EXCEPT ![p] = "pending"]
    /\ bcDone' = Passed(p, meshPeers'[p])
    /\ UNCHANGED <<now, portTable, registry, server, starts, cand,
                   registryCleanupInterval, http, broadcastRest, gateway, store, reentry>>

\* deregisterSession with the delete left out.
DeregisterMergeForgotten(p, reg) == reg

\* delete registry[this.sessionInfo.id]
DeregisterMerge(p, reg) == Without(reg, {sessionInfo[p].id})

\* deregisterSession with a writeRegistry that lets the error of a failing
\* write out: stopServer rejects before it closes the server.
DeregisterWriteThrows(p) ==
    IF fileState = "denied"
    THEN /\ rmw[p] = "deregister"
         /\ rmw' = [rmw EXCEPT ![p] = "none"]
         /\ buf' = [buf EXCEPT ![p] = EmptyRegistry]
         /\ startPc' = [startPc EXCEPT ![p] = "idle"]
         /\ outcome' = [outcome EXCEPT ![p] = "stopFailed"]
         /\ UNCHANGED <<now, portTable, registry, server, sessionInfo, meshPeers, starts, cand,
                        timers, routing, http, calls>>
    ELSE
        /\ rmw[p] = "deregister"
        /\ registry' = Written(DeregisterMerge(p, buf[p]))
        /\ fileState' = WrittenState
        /\ rmw' = [rmw EXCEPT ![p] = "none"]
        /\ buf' = [buf EXCEPT ![p] = EmptyRegistry]
        /\ IF server[p] = "null"
           THEN /\ startPc' = [startPc EXCEPT ![p] = "idle"]
                /\ outcome' = [outcome EXCEPT ![p] = "stopped"]
                /\ UNCHANGED <<server, portTable>>
           ELSE /\ startPc' = [startPc EXCEPT ![p] = "closing"]
                /\ server' = [server EXCEPT ![p] =
                        IF server[p] = "listening" THEN "closing" ELSE "closingFailed"]
                /\ portTable' = [c \in Ports |->
                        IF portTable[c] = <<p, "srv">> THEN Free ELSE portTable[c]]
                /\ UNCHANGED outcome
        /\ UNCHANGED <<now, sessionInfo, meshPeers, starts, cand, timers, routing, http,
                       broadcast, gateway, reentry>>

\* deregisterSession writes; then this.server.close(cb) gives up the listening
\* socket, or stopServer is over at once when this.server is null.
DeregisterWrite(p) ==
    /\ rmw[p] = "deregister"
    /\ registry' = Written(DeregisterMerge(p, buf[p]))
    /\ fileState' = WrittenState
    /\ rmw' = [rmw EXCEPT ![p] = "none"]
    /\ buf' = [buf EXCEPT ![p] = EmptyRegistry]
    /\ IF server[p] = "null"
       THEN /\ startPc' = [startPc EXCEPT ![p] = "idle"]
            /\ outcome' = [outcome EXCEPT ![p] = "stopped"]
            /\ UNCHANGED <<server, portTable>>
       ELSE /\ startPc' = [startPc EXCEPT ![p] = "closing"]
            /\ server' = [server EXCEPT ![p] =
                    IF server[p] = "listening" THEN "closing" ELSE "closingFailed"]
            /\ portTable' = [c \in Ports |->
                    IF portTable[c] = <<p, "srv">> THEN Free ELSE portTable[c]]
            /\ UNCHANGED outcome
    /\ UNCHANGED <<now, sessionInfo, meshPeers, starts, cand, timers, routing, http,
                   broadcast, gateway, reentry>>

\* The close callback: this.server = null and the promise resolves.
CloseDone(p) ==
    /\ startPc[p] = "closing" /\ Quiet(p)
    /\ server' = [server EXCEPT ![p] = "null"]
    /\ startPc' = [startPc EXCEPT ![p] = "idle"]
    /\ outcome' = [outcome EXCEPT ![p] = "stopped"]
    /\ UNCHANGED <<now, portTable, registry, sessionInfo, meshPeers, starts, cand,
                   rmw, buf, timers, routing, http, calls>>

\* ------------------------------------------------------ dynamic endpoints
\* The session takes HTTP requests: it listens, or it is closing and still
\* serves the connections it has.
Serving(p) == server[p] \in {"listening", "closing"} /\ Quiet(p)

Reply(op, path, payload, status) ==
    [op |-> op, path |-> path, payload |-> payload, status |-> status,
     dyn |-> FALSE, servedPath |-> "", response |-> 0]

\* The stack and the map after the /add-endpoint handler has run for a valid path.
AddedStack(st, de, path, response, mode) ==
    Append(IF path \in DOMAIN de THEN RemovedStack(st, path, mode) ELSE st,
           Dynamic(path, response))
AddedMap(de, path, response) == With(RemovedMap(de, path), path, response)

\* POST /add-endpoint {path, response}
AddEndpoint(p, path, response) ==
    /\ Serving(p)
    /\ DynamicCount(AddedStack(stack[p], dynamicEndpoints[p], path, response, routerMode))
            <= MaxDynamic
    /\ IF FirstMatch(stack[p], "POST", "/add-endpoint") = 0
       THEN /\ lastReq' = [lastReq EXCEPT ![p] = Reply("add", path, response, 404)]
            /\ UNCHANGED routing
       ELSE /\ stack' = [stack EXCEPT ![p] =
                    AddedStack(stack[p], dynamicEndpoints[p], path, response, routerMode)]
            /\ dynamicEndpoints' = [dynamicEndpoints EXCEPT ![p] =
                    AddedMap(dynamicEndpoints[p], path, response)]
            /\ lastReq' = [lastReq EXCEPT ![p] = Reply("add", path, response, 200)]
    /\ UNCHANGED <<now, portTable, registry, server, sessionInfo, meshPeers, starts,
                   startPc, cand, outcome, rmw, buf, timers, routerMode, calls>>

\* The /remove-endpoint handler without its dynamicEndpoints.has(path) test.
RemoveEndpointUntested(p, path) ==
    /\ Serving(p)
    /\ IF FirstMatch(stack[p], "POST", "/remove-endpoint") = 0
       THEN /\ lastReq' = [lastReq EXCEPT ![p] = Reply("remove", path, 0, 404)]
            /\ UNCHANGED routing
       ELSE /\ stack' = [stack EXCEPT ![p] = RemovedStack(stack[p], path, routerMode)]
            /\ dynamicEndpoints' = [dynamicEndpoints EXCEPT ![p] =
                    RemovedMap(dynamicEndpoints[p], path)]
            /\ lastReq' = [lastReq EXCEPT ![p] = Reply("remove", path, 0, 200)]
    /\ UNCHANGED <<now, portTable, registry, server, sessionInfo, meshPeers, starts,
                   startPc, cand, outcome, rmw, buf, timers, routerMode, calls>>

\* POST /remove-endpoint {path}
RemoveEndpoint(p, path) ==
    /\ Serving(p)
    /\ IF FirstMatch(stack[p], "POST", "/remove-endpoint") = 0
            \/ path \notin DOMAIN dynamicEndpoints[p]
       THEN /\ lastReq' = [lastReq EXCEPT ![p] = Reply("remove", path, 0, 404)]
            /\ UNCHANGED routing
       ELSE /\ stack' = [stack EXCEPT ![p] = RemovedStack(stack[p], path, routerMode)]
            /\ dynamicEndpoints' = [dynamicEndpoints EXCEPT ![p] =
                    RemovedMap(dynamicEndpoints[p], path)]
            /\ lastReq' = [lastReq EXCEPT ![p] = Reply("remove", path, 0, 200)]
    /\ UNCHANGED <<now, portTable, registry, server, sessionInfo, meshPeers, starts,
                   startPc, cand, outcome, rmw, buf, timers, routerMode, calls>>

\* !path || typeof path !== 'string' || !path.startsWith('/') is false
ValidPath(path) == path.type = "string" /\ path.s # "" /\ path.s \in RoutePaths

\* The text of a body path in the record of the exchange.
PathText(path) == IF path.type = "string" THEN path.s ELSE ""

\* POST /add-endpoint with any body: Express finds the route or answers 404,
\* the handler answers 400 for a path that fails its test and goes on
\* otherwise.
PostAddEndpoint(p, path, response) ==
    IF ValidPath(path)
    THEN AddEndpoint(p, PathText(path), response)
    ELSE /\ Serving(p)
         /\ lastReq' = [lastReq EXCEPT ![p] =
                Reply("add", PathText(path), response,
                      IF FirstMatch(stack[p], "POST", "/add-endpoint") = 0 THEN 404 ELSE 400)]
         /\ UNCHANGED <<now, portTable, registry, server, sessionInfo, meshPeers, starts,
                        startPc, cand, outcome, rmw, buf, timers, routing, routerMode, calls>>

\* POST /remove-endpoint with any body, in the same way.
PostRemoveEndpoint(p, path) ==
    IF ValidPath(path)
    THEN RemoveEndpoint(p, PathText(path))
    ELSE /\ Serving(p)
         /\ lastReq' = [lastReq EXCEPT ![p] =
                Reply("remove", PathText(path), 0,
                      IF FirstMatch(stack[p], "POST", "/remove-endpoint") = 0 THEN 404 ELSE 400)]
         /\ UNCHANGED <<now, portTable, registry, server, sessionInfo, meshPeers, starts,
                        startPc, cand, outcome, rmw, buf, timers, routing, routerMode, calls>>

\* GET url
Get(p, url) ==
    /\ Serving(p)
    /\ lastReq' = [lastReq EXCEPT ![p] = GetResponse(stack[p], url)]
    /\ UNCHANGED <<now, portTable, registry, server, sessionInfo, meshPeers, starts,
                   startPc, cand, outcome, rmw, buf, timers, routing, routerMode, calls>>

\* -------------------------------------------------------------- heartbeat
\* updatePeerHealth: peers whose lastHeartbeat is older than a minute are deleted;
\* sessionInfo.meshPeers is reassigned only inside the deleting branch.
StalePeers(p) ==
    {i \in DOMAIN meshPeers[p] : AgeMs(meshPeers[p][i].lastHeartbeat) > PeerStaleMs}

\* The heartbeat callback, first half: lastSeen is refreshed, the registry read.
HeartbeatRead(p) ==
    /\ heartbeatInterval[p] /\ Quiet(p)
    /\ sessionInfo' = [sessionInfo EXCEPT ![p].lastSeen = now]
    /\ rmw' = [rmw EXCEPT ![p] = "heartbeat"]
    /\ buf' = [buf EXCEPT ![p] = ReadRegistry]
    /\ UNCHANGED <<now, portTable, registry, server, meshPeers, starts, startPc, cand,
                   outcome, timers, routing, http, calls>>

\* The heartbeat callback with an updatePeerHealth that marks a stale peer
\* (peer.isConnected = false) and keeps it for reconnection attempts.
HeartbeatWriteKeepsStale(p) ==
    /\ rmw[p] = "heartbeat"
    /\ registry' = Written(RegisterMerge(p, buf[p]))
    /\ fileState' = WrittenState
    /\ rmw' = [rmw EXCEPT ![p] = "none"]
    /\ buf' = [buf EXCEPT ![p] = EmptyRegistry]
    /\ meshPeers' = [meshPeers EXCEPT ![p] = [i \in DOMAIN meshPeers[p] |->
            IF i \in StalePeers(p) THEN [meshPeers[p][i] EXCEPT !.isConnected = FALSE]
            ELSE meshPeers[p][i]]]
    /\ bcDone' = Passed(p, meshPeers'[p])
    /\ UNCHANGED <<now, portTable, server, sessionInfo, starts, startPc, cand, outcome,
                   timers, routing, http, broadcastRest, gateway, reentry>>

\* The heartbeat callback without its registry write: lastSeen is refreshed in
\* memory only, then updatePeerHealth runs.
HeartbeatWriteUnwritten(p) ==
    /\ rmw[p] = "heartbeat"
    /\ rmw' = [rmw EXCEPT ![p] = "none"]
    /\ buf' = [buf EXCEPT ![p] = EmptyRegistry]
    /\ meshPeers' = [meshPeers EXCEPT ![p] = Without(meshPeers[p], StalePeers(p))]
    /\ sessionInfo' = [sessionInfo EXCEPT ![p].meshPeers =
            IF StalePeers(p) = {} THEN @ ELSE (DOMAIN meshPeers[p]) \ StalePeers(p)]
    /\ bcDone' = Passed(p, meshPeers'[p])
    /\ UNCHANGED <<now, portTable, registry, server, starts, startPc, cand, outcome,
                   timers, routing, http, broadcastRest, gateway, store, reentry>>

\* The heartbeat callback, second half: the own record is written whatever the
\* state of the server, then updatePeerHealth runs.
HeartbeatWrite(p) ==
    /\ rmw[p] = "heartbeat"
    /\ registry' = Written(RegisterMerge(p, buf[p]))
    /\ fileState' = WrittenState
    /\ rmw' = [rmw EXCEPT ![p] = "none"]
    /\ buf' = [buf EXCEPT ![p] = EmptyRegistry]
    /\ meshPeers' = [meshPeers EXCEPT ![p] = Without(meshPeers[p], StalePeers(p))]
    /\ sessionInfo' = [sessionInfo EXCEPT ![p].meshPeers =
            IF StalePeers(p) = {} THEN @ ELSE (DOMAIN meshPeers[p]) \ StalePeers(p)]
    /\ bcDone' = Passed(p, meshPeers'[p])
    /\ UNCHANGED <<now, portTable, server, starts, startPc, cand, outcome,
                   timers, routing, http, broadcastRest, gateway, reentry>>

\* ------------------------------------------------------- registry cleanup
\* The cleanup loop leaving after its first delete.
CleanupStaleFirstOnly(reg) ==
    LET stale == {i \in DOMAIN reg : AgeMs(reg[i].lastSeen) > CleanupStaleMs}
    IN IF stale = {} THEN {} ELSE {CHOOSE i \in stale : TRUE}

\* The ids the cleanup tick deletes from the registry object it read.
CleanupStale(reg) == {i \in DOMAIN reg : AgeMs(reg[i].lastSeen) > CleanupStaleMs}

\* The cleanup callback, first half: the registry is read; with nothing stale
\* the tick is over (changed stays false).
CleanupRead(p) ==
    /\ registryCleanupInterval[p] /\ Quiet(p)
    /\ IF CleanupStale(ReadRegistry) = {}
       THEN UNCHANGED <<rmw, buf>>
       ELSE /\ rmw' = [rmw EXCEPT ![p] = "cleanup"]
            /\ buf' = [buf EXCEPT ![p] = ReadRegistry]
    /\ UNCHANGED <<now, portTable, registry, server, sessionInfo, meshPeers, starts,
                   startPc, cand, outcome, timers, routing, http, calls>>

\* The cleanup callback, second half: the stale ids are deleted (the dynamic
\* endpoints too when the own id is among them) and the registry is written.
CleanupWrite(p) ==
    /\ rmw[p] = "cleanup"
    /\ registry' = Written(Without(buf[p], CleanupStale(buf[p])))
    /\ fileState' = WrittenState
    /\ rmw' = [rmw EXCEPT ![p] = "none"]
    /\ buf' = [buf EXCEPT ![p] = EmptyRegistry]
    /\ IF sessionInfo[p].id \in CleanupStale(buf[p])
       THEN /\ stack' = [stack EXCEPT ![p] =
                    RemoveAllStack(stack[p], DOMAIN dynamicEndpoints[p], routerMode)]
            /\ dynamicEndpoints' = [dynamicEndpoints EXCEPT ![p] = EmptyRegistry]
       ELSE UNCHANGED routing
    /\ UNCHANGED <<now, portTable, server, sessionInfo, meshPeers, starts, startPc,
                   cand, outcome, timers, http, broadcast, gateway, reentry>>

\* --------------------------------------------------------- peer discovery
\* getRegistrySessions keeps the records seen within the last two minutes.
FreshSessions(reg) ==
    Without(reg, {i \in DOMAIN reg : ~(AgeMs(reg[i].lastSeen) < DiscoveryFreshMs)})

\* discoverPeers without its second loop: peers that are not among the
\* sessions stay in the peer table.
DiscoveredPeersKept(p, sessions) ==
    [i \in ((DOMAIN sessions) \ {sessionInfo[p].id}) \cup (DOMAIN meshPeers[p]) |->
        IF i \in DOMAIN sessions /\ i # sessionInfo[p].id
        THEN [port |-> sessions[i].port, lastHeartbeat |-> sessions[i].lastSeen,
              isConnected |-> TRUE]
        ELSE meshPeers[p][i]]

\* discoverPeers after getRegistrySessions: every session but the own id is set
\* in the peer table, peers that are not among the sessions are deleted.
DiscoveredPeers(p, sessions) ==
    [i \in ((DOMAIN sessions) \ {sessionInfo[p].id})
            \cup ((DOMAIN meshPeers[p]) \cap (DOMAIN sessions)) |->
        IF i = sessionInfo[p].id THEN meshPeers[p][i]
        ELSE [port |-> sessions[i].port, lastHeartbeat |-> sessions[i].lastSeen,
              isConnected |-> TRUE]]

\* A discovery callback that writes the records back whether or not one was
\* dropped.
DiscoverReadWritesBack(p) ==
    /\ discoveryInterval[p] /\ Quiet(p)
    /\ rmw' = [rmw EXCEPT ![p] = "discover"]
    /\ buf' = [buf EXCEPT ![p] = ReadRegistry]
    /\ bcDone' = Passed(p, meshPeers[p])
    /\ UNCHANGED <<now, portTable, registry, server, sessionInfo, meshPeers, starts, startPc,
                   cand, outcome, timers, routing, http, broadcastRest, gateway, store,
                   reentry>>

\* The discovery callback: the registry is read; with every record fresh no
\* write follows and the peer table is reconciled at once.
DiscoverRead(p) ==
    /\ discoveryInterval[p] /\ Quiet(p)
    /\ IF DOMAIN FreshSessions(ReadRegistry) = DOMAIN ReadRegistry
       THEN /\ meshPeers' = [meshPeers EXCEPT ![p] = DiscoveredPeers(p, ReadRegistry)]
            /\ sessionInfo' = [sessionInfo EXCEPT ![p].meshPeers =
                    DOMAIN DiscoveredPeers(p, ReadRegistry)]
            /\ UNCHANGED <<rmw, buf>>
       ELSE /\ rmw' = [rmw EXCEPT ![p] = "discover"]
            /\ buf' = [buf EXCEPT ![p] = ReadRegistry]
            /\ UNCHANGED <<meshPeers, sessionInfo>>
    /\ bcDone' = Passed(p, meshPeers'[p])
    /\ UNCHANGED <<now, portTable, registry, server, starts, startPc, cand, outcome,
                   timers, routing, http, broadcastRest, gateway, store, reentry>>

\* The discovery callback when records were dropped: the fresh records are
\* written back and the peer table is reconciled with them.
DiscoverWrite(p) ==
    /\ rmw[p] = "discover"
    /\ registry' = Written(FreshSessions(buf[p]))
    /\ fileState' = WrittenState
    /\ rmw' = [rmw EXCEPT ![p] = "none"]
    /\ buf' = [buf EXCEPT ![p] = EmptyRegistry]
    /\ meshPeers' = [meshPeers EXCEPT ![p] = DiscoveredPeers(p, FreshSessions(buf[p]))]
    /\ sessionInfo' = [sessionInfo EXCEPT ![p].meshPeers =
            DOMAIN DiscoveredPeers(p, FreshSessions(buf[p]))]
    /\ bcDone' = Passed(p, meshPeers'[p])
    /\ UNCHANGED <<now, portTable, server, starts, startPc, cand, outcome,
                   timers, routing, http, broadcastRest, gateway, reentry>>

\* -------------------------------------------------------------- broadcast
\* How the http.request of httpPost to a peer's baseUrl can end: a listening
\* server answers or stays silent until the 5 s timeout, a port nobody holds
\* refuses the connection, a socket that accepts and never answers times out.
RequestOutcomes(peer) ==
    IF peer.port \notin Ports \/ portTable[peer.port] = Free
    THEN {[kind |-> "error", message |-> "ECONNREFUSED"]}
    ELSE IF portTable[peer.port][2] = "srv"
    THEN {[kind |-> "result", message |-> ""], [kind |-> "error", message |-> "Timeout"]}
    ELSE {[kind |-> "error", message |-> "Timeout"]}

\* The executor of httpPost registers the /exec-with-action route on this.app
\* before it sends the request.
HttpPostStack(st) == Append(st, Builtin("POST", "/exec-with-action"))

\* The request to the next entry of the peer table is made and awaited.
Request(p, passed, i) ==
    \E o \in RequestOutcomes(meshPeers[p][i]) :
        /\ bcPc' = [bcPc EXCEPT ![p] = "await"]
        /\ bcCur' = [bcCur EXCEPT ![p] =
                [sessionId |-> i, kind |-> o.kind, message |-> o.message]]
        /\ bcDone' = [bcDone EXCEPT ![p] = passed \cup {i}]
        /\ stack' = [stack EXCEPT ![p] = HttpPostStack(stack[p])]

\* The broadcast is over: return results.
Return(p, passed) ==
    /\ bcPc' = [bcPc EXCEPT ![p] = "returned"]
    /\ bcCur' = [bcCur EXCEPT ![p] = NoPeer]
    /\ bcDone' = [bcDone EXCEPT ![p] = passed]
    /\ UNCHANGED stack

\* The loop with its try/catch around the whole for-of: the first error ends it.
IterateUntilError(p, passed) ==
    LET left == (DOMAIN meshPeers[p]) \ passed
    IN IF left = {} \/ bcCur[p].kind = "error"
       THEN Return(p, passed)
       ELSE \E i \in left : Request(p, passed, i)

\* The for-of loop over this.meshPeers.values() takes its next step: with no
\* entry left the broadcast returns, otherwise httpPost is called for the next
\* entry and the loop awaits it.
Iterate(p, passed) ==
    LET left == (DOMAIN meshPeers[p]) \ passed
    IN IF left = {}
       THEN Return(p, passed)
       ELSE \E i \in left : Request(p, passed, i)

\* POST /mesh/broadcast/:endpoint: broadcastToMesh starts with empty results and
\* runs up to its first await.
BroadcastToMesh(p) ==
    /\ Serving(p) /\ bcPc[p] # "await"
    /\ broadcasts[p] < MaxBroadcasts
    /\ broadcasts' = [broadcasts EXCEPT ![p] = broadcasts[p] + 1]
    /\ results' = [results EXCEPT ![p] = << >>]
    /\ bcIssued' = [bcIssued EXCEPT ![p] = DOMAIN meshPeers[p]]
    /\ Iterate(p, {})
    /\ UNCHANGED <<now, portTable, registry, server, sessionInfo, meshPeers, starts, startPc,
                   cand, outcome, rmw, buf, timers, dynamicEndpoints, http, gateway, store,
                   reentry>>

\* The awaited httpPost settles: the try block pushes the parsed result, the
\* catch block pushes the error, and the loop goes on.
HttpPostSettles(p) ==
    /\ bcPc[p] = "await" /\ Quiet(p)
    /\ results' = [results EXCEPT ![p] = Append(results[p], bcCur[p])]
    /\ Iterate(p, bcDone[p])
    /\ UNCHANGED <<now, portTable, registry, server, sessionInfo, meshPeers, starts, startPc,
                   cand, outcome, rmw, buf, timers, dynamicEndpoints, http,
                   bcIssued, broadcasts, gateway, store, reentry>>

\* What a listening session answers to the POST request httpPost sends to
\* url: the first POST layer that matches answers with JSON; with none the
\* request falls through to Express's 404 page, which is HTML ("Cannot POST").
\* A dynamic endpoint is a GET layer and is never a match.
PostResponse(st, url) ==
    LET i == FirstMatch(st, "POST", url)
    IN IF i = 0
       THEN [status |-> 404, json |-> FALSE, dyn |-> FALSE, response |-> 0]
       ELSE [status |-> 200, json |-> TRUE, dyn |-> st[i].dyn, response |-> st[i].response]

\* httpPost resolves with the body whatever the status; JSON.parse(response)
\* gives the result entry, or throws on a body that is not JSON and the catch
\* block gives the error entry.
ParsedEntry(i, r) ==
    IF r.json
    THEN [sessionId |-> i, kind |-> "result", message |-> "", dyn |-> r.dyn,
          response |-> r.response]
    ELSE [sessionId |-> i, kind |-> "error", message |-> "Unexpected token <",
          dyn |-> FALSE, response |-> 0]

\* How the httpPost of `${peer.baseUrl}${endpoint}` can end: as RequestOutcomes,
\* with the answer of the server that holds the peer's port worked out.
EndpointOutcomes(i, peer, endpoint) ==
    IF peer.port \notin Ports \/ portTable[peer.port] = Free
    THEN {[sessionId |-> i, kind |-> "error", message |-> "ECONNREFUSED",
           dyn |-> FALSE, response |-> 0]}
    ELSE IF portTable[peer.port][2] = "srv"
    THEN {ParsedEntry(i, PostResponse(stack[portTable[peer.port][1]], endpoint)),
          [sessionId |-> i, kind |-> "error", message |-> "Timeout",
           dyn |-> FALSE, response |-> 0]}
    ELSE {[sessionId |-> i, kind |-> "error", message |-> "Timeout",
           dyn |-> FALSE, response |-> 0]}

\* The for-of loop of broadcastToMesh(endpoint, data) takes its next step.
IterateEndpoint(p, passed, endpoint) ==
    LET left == (DOMAIN meshPeers[p]) \ passed
    IN IF left = {}
       THEN Return(p, passed)
       ELSE \E i \in left : \E o \in EndpointOutcomes(i, meshPeers[p][i], endpoint) :
                /\ bcPc' = [bcPc EXCEPT ![p] = "await"]
                /\ bcCur' = [bcCur EXCEPT ![p] = o]
                /\ bcDone' = [bcDone EXCEPT ![p] = passed \cup {i}]
                /\ stack' = [stack EXCEPT ![p] = HttpPostStack(stack[p])]

\* POST /mesh/broadcast/:endpoint: the handler calls
\* broadcastToMesh(`/${endpoint}`, req.body), which runs up to its first await.
PostMeshBroadcast(p, endpoint) ==
    /\ Serving(p) /\ bcPc[p] # "await"
    /\ broadcasts[p] < MaxBroadcasts
    /\ broadcasts' = [broadcasts EXCEPT ![p] = broadcasts[p] + 1]
    /\ results' = [results EXCEPT ![p] = << >>]
    /\ bcIssued' = [bcIssued EXCEPT ![p] = DOMAIN meshPeers[p]]
    /\ lastReq' = [lastReq EXCEPT ![p] = Reply("broadcast", endpoint, 0, 0)]
    /\ IterateEndpoint(p, {}, endpoint)
    /\ UNCHANGED <<now, portTable, registry, server, sessionInfo, meshPeers, starts, startPc,
                   cand, outcome, rmw, buf, timers, dynamicEndpoints, routerMode, gateway,
                   store, reentry>>

\* The awaited httpPost of that broadcast settles: the entry is pushed and the
\* loop goes on; after the last peer the handler answers 200 with the results.
EndpointPostSettles(p) ==
    /\ bcPc[p] = "await" /\ Quiet(p) /\ lastReq[p].op = "broadcast"
    /\ results' = [results EXCEPT ![p] = Append(results[p], bcCur[p])]
    /\ IterateEndpoint(p, bcDone[p], lastReq[p].path)
    /\ lastReq' = [lastReq EXCEPT ![p].status = IF bcPc'[p] = "returned" THEN 200 ELSE 0]
    /\ UNCHANGED <<now, portTable, registry, server, sessionInfo, meshPeers, starts, startPc,
                   cand, outcome, rmw, buf, timers, dynamicEndpoints, routerMode,
                   bcIssued, broadcasts, gateway, store, reentry>>

\* ------------------------------------------------------- execution gateway
\* await func(...): the value the code returns, or the error it throws.
RunCode(code) ==
    CASE code = "return 2" -> [ok |-> TRUE, value |-> Num(2), error |-> ""]
      [] code = "return 3" -> [ok |-> TRUE, value |-> Num(3), error |-> ""]
      [] code = "return 0/0" -> [ok |-> TRUE, value |-> NaN, error |-> ""]
      [] code = "return" -> [ok |-> TRUE, value |-> Undefined, error |-> ""]
      [] code = "const o = {}; o.o = o; return o" ->
            [ok |-> TRUE, value |-> Circular, error |-> ""]
      [] OTHER -> [ok |-> FALSE, value |-> Undefined, error |-> "first"]

\* result * 10 in JavaScript
TimesTen(r) == IF r.type = "number" THEN Num(r.n * 10) ELSE NaN

\* The reaction evaluated with its parameter result left unbound.
RunReactionUnbound(onResult, r) ==
    CASE onResult = "return result * 10" -> [ok |-> TRUE, value |-> NaN, error |-> ""]
      [] onResult = "return result" -> [ok |-> TRUE, value |-> Undefined, error |-> ""]
      [] OTHER -> [ok |-> FALSE, value |-> Undefined, error |-> "second"]

\* await actionFunc(result, ...): onResult is a function body whose first
\* parameter result is the value of the first phase.
RunReaction(onResult, r) ==
    CASE onResult = "return result * 10" -> [ok |-> TRUE, value |-> TimesTen(r), error |-> ""]
      [] onResult = "return result" -> [ok |-> TRUE, value |-> r, error |-> ""]
      [] OTHER -> [ok |-> FALSE, value |-> Undefined, error |-> "second"]

\* JSON.stringify of an object property: NaN becomes null, an undefined
\* property is left out.
ToJson(v) ==
    CASE v.type = "NaN" -> Null
      [] v.type = "undefined" -> Absent
      [] OTHER -> v

\* res.status(500).json({ success: false, error })
ExecError(code, onResult, message) ==
    [code |-> code, onResult |-> onResult, status |-> 500, success |-> False,
     result |-> Absent, actionResult |-> Absent, error |-> message]

\* The handler of POST /exec-with-action: one try block around both phases
\* and the res.json of the composite object.
ExecWithAction(code, onResult) ==
    LET first == RunCode(code)
        second == IF onResult = "" THEN [ok |-> TRUE, value |-> Null, error |-> ""]
                  ELSE RunReaction(onResult, first.value)
    IN IF ~first.ok THEN ExecError(code, onResult, first.error)
       ELSE IF ~second.ok THEN ExecError(code, onResult, second.error)
       ELSE IF Circular \in {first.value, second.value}
       THEN ExecError(code, onResult, "Converting circular structure to JSON")
       ELSE [code |-> code, onResult |-> onResult, status |-> 200, success |-> Absent,
             result |-> ToJson(first.value), actionResult |-> ToJson(second.value),
             error |-> ""]

\* POST /exec-with-action {code, onResult}: Express answers 404 when no layer
\* of the stack serves the route.
PostExecWithAction(p, code, onResult) ==
    /\ Serving(p)
    /\ lastExec' = [lastExec EXCEPT ![p] =
            IF FirstMatch(stack[p], "POST", "/exec-with-action") = 0
            THEN [NoExec EXCEPT !.code = code, !.onResult = onResult, !.status = 404]
            ELSE ExecWithAction(code, onResult)]
    /\ UNCHANGED <<now, portTable, registry, server, sessionInfo, meshPeers, starts, startPc,
                   cand, outcome, rmw, buf, timers, routing, http, broadcast, store, reentry,
                   bridge>>

\* ----------------------------------------------------------- socket bridge
\* The text on a connection, in pieces: the newline, and JSON texts (one that
\* is not JSON among them).  Two pieces on one line are not valid JSON.
Newline == "\n"
JsonTexts == {"oops", "null", "{}", "{id:0,action:'exec',code:'return 2'}",
              "{id:1,action:'exec',code:'return 2'}",
              "{id:2,action:'exec',code:'throw new Error()'}", "{id:3,action:'ping'}"}
Chunks == UNION {[1..n -> JsonTexts \cup {Newline}] : n \in 1..MaxChunk}

NoRequestLine == [valid |-> FALSE, isNull |-> FALSE, id |-> Undefined, action |-> "", code |-> ""]
RequestLine(id, action, code) ==
    [valid |-> TRUE, isNull |-> FALSE, id |-> id, action |-> action, code |-> code]

\* JSON.parse(line)
JsonParse(line) ==
    IF Len(line) # 1 THEN NoRequestLine
    ELSE CASE line[1] = "null" -> [NoRequestLine EXCEPT !.valid = TRUE, !.isNull = TRUE]
           [] line[1] = "{}" -> RequestLine(Undefined, "", "")
           [] line[1] = "{id:0,action:'exec',code:'return 2'}" ->
                RequestLine(Num(0), "exec", "return 2")
           [] line[1] = "{id:1,action:'exec',code:'return 2'}" ->
                RequestLine(Num(1), "exec", "return 2")
           [] line[1] = "{id:2,action:'exec',code:'throw new Error()'}" ->
                RequestLine(Num(2), "exec", "throw new Error('first')")
           [] line[1] = "{id:3,action:'ping'}" -> RequestLine(Num(3), "ping", "")
           [] OTHER -> NoRequestLine

\* !v in JavaScript
Falsy(v) == v \in {Undefined, Null, Num(0), NaN, False, Str("")}

\* The response lines of the bridge.
BridgeError(id, error) == [id |-> id, ok |-> FALSE, error |-> error, result |-> Absent]
BridgeResult(id, result) == [id |-> id, ok |-> TRUE, error |-> "", result |-> result]

\* The while loop of the 'data' handler: each line up to a newline is taken
\* off acc; an empty line is skipped, a line that does not parse is answered
\* 'invalid-json', a request that is null or whose id is falsy is answered
\* 'missing id', an exec is started and awaited, any other action is answered
\* 'unsupported action'.
RECURSIVE Drain(_, _, _)
Drain(a, out, pend) ==
    IF \A k \in 1..Len(a) : a[k] # Newline
    THEN [acc |-> a, sent |-> out, pending |-> pend]
    ELSE LET idx == CHOOSE k \in 1..Len(a) :
                        a[k] = Newline /\ \A j \in 1..(k - 1) : a[j] # Newline
             line == SubSeq(a, 1, idx - 1)
             rest == SubSeq(a, idx + 1, Len(a))
             req == JsonParse(line)
         IN IF line = << >> THEN Drain(rest, out, pend)
            ELSE IF ~req.valid
            THEN Drain(rest, Append(out, BridgeError(Null, "invalid-json")), pend)
            ELSE IF req.isNull \/ Falsy(req.id)
            THEN Drain(rest, Append(out, BridgeError(Null, "missing id")), pend)
            ELSE IF req.action = "exec"
            THEN Drain(rest, out, Append(pend, req))
            ELSE Drain(rest, Append(out, BridgeError(req.id, "unsupported action")), pend)

\* conn.on('data', chunk): acc += chunk, then the loop.
Data(chunk) ==
    /\ Len(received) + Len(chunk) <= MaxInput
    /\ received' = received \o chunk
    /\ LET d == Drain(acc \o chunk, sent, pending)
       IN acc' = d.acc /\ sent' = d.sent /\ pending' = d.pending
    /\ UNCHANGED <<now, portTable, registry, server, sessionInfo, meshPeers, starts, startPc,
                   cand, outcome, rmw, buf, timers, routing, http, broadcast, lastExec,
                   store, reentry>>

\* safeSerialize(res): undefined becomes null.
SafeSerialize(v) == IF v = Undefined THEN Null ELSE v

\* The awaited exec of the k-th pending request settles: the result is
\* written with ok true, an error with ok false.
ExecSettles(k) ==
    /\ k \in 1..Len(pending)
    /\ LET req == pending[k]
           res == RunCode(req.code)
       IN sent' = Append(sent, IF res.ok THEN BridgeResult(req.id, SafeSerialize(res.value))
                               ELSE BridgeError(req.id, res.error))
    /\ pending' = SubSeq(pending, 1, k - 1) \o SubSeq(pending, k + 1, Len(pending))
    /\ UNCHANGED <<now, portTable, registry, server, sessionInfo, meshPeers, starts, startPc,
                   cand, outcome, rmw, buf, timers, routing, http, broadcast, lastExec,
                   store, reentry, received, acc>>

\* ------------------------------------------------------------ environment
\* Something outside the sessions damages the registry file: it is deleted,
\* access to it is denied, or its content is no longer JSON.
Damage(kind) ==
    /\ fileState = "ok"
    /\ fileState' = kind
    /\ registry' = IF kind = "missing" THEN EmptyRegistry ELSE registry
    /\ UNCHANGED <<now, portTable, server, sessionInfo, meshPeers, starts, startPc, cand,
                   outcome, rmw, buf, timers, routing, http, broadcast, gateway, reentry>>

\* Another program of the host binds a free port, or gives up the one it holds.
Occupy(c) ==
    /\ portTable[c] = Free
    /\ portTable' = [portTable EXCEPT ![c] = <<0, "other">>]
    /\ UNCHANGED <<now, registry, server, sessionInfo, meshPeers, starts, startPc,
                   cand, outcome, rmw, buf, timers, routing, http, calls>>

Vacate(c) ==
    /\ portTable[c] = <<0, "other">>
    /\ portTable' = [portTable EXCEPT ![c] = Free]
    /\ UNCHANGED <<now, registry, server, sessionInfo, meshPeers, starts, startPc,
                   cand, outcome, rmw, buf, timers, routing, http, calls>>

\* ------------------------------------------------------------------- time
Tick ==
    /\ now < MaxTime /\ AllQuiet
    /\ now' = now + 1
    /\ UNCHANGED <<portTable, registry, server, sessionInfo, meshPeers, starts, startPc,
                   cand, outcome, rmw, buf, timers, routing, http, calls>>

\* Time passes for a session 1 whose heartbeat fires at every heartbeat
\* interval (one time unit): while it runs, a unit ends only after its
\* lastSeen has been set within that unit, and its listen callback is not
\* held back for a unit.
TickPunctual ==
    /\ startPc[1] # "register"
    /\ server[1] = "listening" => (now - sessionInfo[1].lastSeen) * UnitMs < HeartbeatMs
    /\ Tick

\* ---------------------------------------------------------- specification
Next ==
    \/ Tick
    \/ \E p \in Procs :
        \/ StartServer(p) \/ Probe(p) \/ Release(p) \/ Listen(p)
        \/ RegisterRead(p) \/ RegisterWrite(p)
        \/ StopServer(p) \/ DeregisterWrite(p) \/ CloseDone(p)
        \/ HeartbeatRead(p) \/ HeartbeatWrite(p)
        \/ CleanupRead(p) \/ CleanupWrite(p)
        \/ DiscoverRead(p) \/ DiscoverWrite(p)

Spec == Init /\ [][Next]_vars

\* One session and its HTTP clients: the session starts, serves /add-endpoint,
\* /remove-endpoint and GET requests, and stops.  The Express build decides
\* what removeDynamicEndpoint finds.
InitRouter ==
    /\ now = 0
    /\ portTable = [c \in Ports |-> Free]
    /\ registry = EmptyRegistry
    /\ server = [p \in Procs |-> "null"]
    /\ sessionInfo = [p \in Procs |->
            [id |-> EmptyId, serverPort |-> 0, lastSeen |-> 0, meshPeers |-> {}]]
    /\ meshPeers = [p \in Procs |-> EmptyRegistry]
    /\ starts = [p \in Procs |-> 0]
    /\ startPc = [p \in Procs |-> "idle"]
    /\ cand = [p \in Procs |-> PortMin]
    /\ outcome = [p \in Procs |-> "none"]
    /\ rmw = [p \in Procs |-> "none"]
    /\ buf = [p \in Procs |-> EmptyRegistry]
    /\ heartbeatInterval = [p \in Procs |-> TRUE]
    /\ discoveryInterval = [p \in Procs |-> TRUE]
    /\ registryCleanupInterval = [p \in Procs |-> TRUE]
    /\ stack = [p \in Procs |-> BuiltinStack]
    /\ dynamicEndpoints = [p \in Procs |-> EmptyRegistry]
    /\ routerMode \in RouterModes
    /\ lastReq = [p \in Procs |-> NoRequest]
    /\ bcPc = [p \in Procs |-> "idle"]
    /\ bcCur = [p \in Procs |-> NoPeer]
    /\ bcDone = [p \in Procs |-> {}]
    /\ results = [p \in Procs |-> << >>]
    /\ bcIssued = [p \in Procs |-> {}]
    /\ broadcasts = [p \in Procs |-> 0]
    /\ lastExec = [p \in Procs |-> NoExec]
    /\ fileState = "ok"
    /\ startPcB = [p \in Procs |-> "idle"]
    /\ candB = [p \in Procs |-> PortMin]
    /\ received = << >> /\ acc = << >> /\ sent = << >> /\ pending = << >>

NextRouter ==
    \E p \in {1} :
        \/ StartServer(p) \/ Probe(p) \/ Release(p) \/ Listen(p)
        \/ RegisterRead(p) \/ RegisterWrite(p)
        \/ StopServer(p) \/ DeregisterWrite(p) \/ CloseDone(p)
        \/ \E path \in Paths : \E response \in Payloads : AddEndpoint(p, path, response)
        \/ \E path \in Paths : RemoveEndpoint(p, path)
        \/ \E url \in Paths : Get(p, url)

SpecRouter == InitRouter /\ [][NextRouter]_vars

\* One session with dynamic endpoints and a second process whose timers run:
\* session 1 starts and takes /add-endpoint requests, time passes, and the
\* heartbeat, cleanup and discovery timers of both processes fire.
NextExpiry ==
    \/ Tick
    \/ StartServer(1) \/ Probe(1) \/ Release(1) \/ Listen(1)
    \/ RegisterRead(1) \/ RegisterWrite(1)
    \/ \E response \in Payloads : AddEndpoint(1, "/custom", response)
    \/ \E p \in Procs :
        \/ HeartbeatRead(p) \/ HeartbeatWrite(p)
        \/ CleanupRead(p) \/ CleanupWrite(p)
        \/ DiscoverRead(p) \/ DiscoverWrite(p)

SpecExpiry == Init /\ [][NextExpiry]_vars

\* The same session and clients on an Express build whose router stack is there.
SpecRouterStack == Init /\ [][NextRouter]_vars

\* Two sessions, one of which broadcasts: both start and heartbeat, session 1
\* discovers its peers, serves POST /mesh/broadcast/:endpoint and stops.
NextBroadcast ==
    \/ Tick
    \/ \E p \in Procs :
        \/ StartServer(p) \/ Probe(p) \/ Release(p) \/ Listen(p)
        \/ RegisterRead(p) \/ RegisterWrite(p)
        \/ HeartbeatRead(p) \/ HeartbeatWrite(p)
    \/ StopServer(1) \/ DeregisterWrite(1) \/ CloseDone(1)
    \/ DiscoverRead(1) \/ DiscoverWrite(1)
    \/ BroadcastToMesh(1) \/ HttpPostSettles(1)

SpecBroadcast == Init /\ [][NextBroadcast]_vars

\* A broadcast to a named endpoint: both sessions start, clients add dynamic
\* endpoints to session 2, session 1 discovers its peers and serves
\* POST /mesh/broadcast/:endpoint.
NextDispatch ==
    \/ \E p \in Procs :
        \/ StartServer(p) \/ Probe(p) \/ Release(p) \/ Listen(p)
        \/ RegisterRead(p) \/ RegisterWrite(p)
    \/ \E path \in Paths, response \in Payloads : AddEndpoint(2, path, response)
    \/ DiscoverRead(1)
    \/ \E endpoint \in Paths : PostMeshBroadcast(1, endpoint)
    \/ EndpointPostSettles(1)

SpecDispatch == Init /\ [][NextDispatch]_vars

\* One connection of the socket bridge: chunks of text arrive, awaited execs
\* settle.
NextBridge ==
    \/ \E chunk \in Chunks : Data(chunk)
    \/ \E k \in 1..MaxInput : ExecSettles(k)

SpecBridge == Init /\ [][NextBridge]_vars

\* A broadcasting session whose peer table only grows: both sessions start and
\* heartbeat, session 1 discovers its peers and broadcasts.  The event loop
\* runs every callback that is due: a synchronous block runs to its end, and a
\* request that has settled is delivered to the awaiting broadcast.
NextDelivery ==
    \/ \E p \in Procs :
        \/ StartServer(p) \/ Probe(p) \/ Release(p) \/ Listen(p)
        \/ RegisterRead(p) \/ RegisterWrite(p)
        \/ HeartbeatRead(p) \/ HeartbeatWrite(p)
    \/ DiscoverRead(1)
    \/ BroadcastToMesh(1) \/ HttpPostSettles(1)

FairDelivery == WF_vars(HeartbeatWrite(1)) /\ SF_vars(HttpPostSettles(1))

SpecDelivery == Init /\ [][NextDelivery]_vars /\ FairDelivery

\* A session and the clients of its execution gateway: session 1 starts,
\* discovers the records in the store and broadcasts, and takes POST
\* /exec-with-action requests; the heartbeat of a second process writes a record.
NextGateway ==
    \/ StartServer(1) \/ Probe(1) \/ Release(1) \/ Listen(1)
    \/ RegisterRead(1) \/ RegisterWrite(1)
    \/ HeartbeatRead(2) \/ HeartbeatWrite(2)
    \/ DiscoverRead(1)
    \/ BroadcastToMesh(1) \/ HttpPostSettles(1)
    \/ \E code \in Codes : \E onResult \in Reactions : PostExecWithAction(1, code, onResult)

SpecGateway == Init /\ [][NextGateway]_vars

\* A session on a registry file that can be damaged: session 1 starts, runs its
\* timers and stops, the heartbeat of a second process writes to the same
\* file, and the file is deleted, made inaccessible or corrupted at any moment.
NextStore ==
    \/ Tick
    \/ \E kind \in Damages : Damage(kind)
    \/ StartServer(1) \/ Probe(1) \/ Release(1) \/ Listen(1)
    \/ RegisterRead(1) \/ RegisterWrite(1)
    \/ StopServer(1) \/ DeregisterWrite(1) \/ CloseDone(1)
    \/ CleanupRead(1) \/ CleanupWrite(1)
    \/ DiscoverRead(1) \/ DiscoverWrite(1)
    \/ \E p \in Procs : HeartbeatRead(p) \/ HeartbeatWrite(p)

SpecStore == Init /\ [][NextStore]_vars

\* One process whose startServer is invoked again while it is pending (the
\* unawaited autoStart call of activate, then a start or toggle command),
\* with its heartbeat timer running.
NextReentry ==
    \/ StartServer(1) \/ Probe(1) \/ Release(1) \/ Listen(1)
    \/ RegisterRead(1) \/ RegisterWrite(1)
    \/ StartServerAgain(1) \/ ProbeB(1) \/ ReleaseB(1) \/ ListenB(1)
    \/ HeartbeatRead(1) \/ HeartbeatWrite(1)

SpecReentry == Init /\ [][NextReentry]_vars

\* A session that is stopped while things fail: session 1 starts, takes
\* /add-endpoint requests and stops, on any Express build and with a registry
\* file that can be damaged.  The deregistration is synchronous code that runs
\* to its end, and the server's 'close' event arrives once its connections
\* have ended.
NextStop ==
    \/ \E kind \in Damages : Damage(kind)
    \/ StartServer(1) \/ Probe(1) \/ Release(1) \/ Listen(1)
    \/ RegisterRead(1) \/ RegisterWrite(1)
    \/ \E response \in Payloads : AddEndpoint(1, "/custom", response)
    \/ StopServer(1) \/ DeregisterWrite(1) \/ CloseDone(1)

FairStop == WF_vars(DeregisterWrite(1)) /\ WF_vars(CloseDone(1))

SpecStop == InitRouter /\ [][NextStop]_vars /\ FairStop

\* The life of one session next to a second one: session 1 starts, stops and
\* starts again, the timers its constructor armed fire while they are armed,
\* and session 2 starts and heartbeats on the same registry file.
NextLifecycle ==
    \/ Tick
    \/ StartServerAfterStop(1)
    \/ \E p \in Procs :
        \/ StartServer(p) \/ Probe(p) \/ Release(p) \/ Listen(p)
        \/ RegisterRead(p) \/ RegisterWrite(p)
    \/ StopServer(1) \/ DeregisterWrite(1) \/ CloseDone(1)
    \/ CleanupRead(1) \/ CleanupWrite(1)
    \/ DiscoverRead(1) \/ DiscoverWrite(1)
    \/ \E p \in Procs : HeartbeatRead(p) \/ HeartbeatWrite(p)

SpecLifecycle == Init /\ [][NextLifecycle]_vars

\* The same two sessions under the event loop's scheduling: a timer that is
\* armed fires again and again, so the discovery callback of session 1 runs
\* whenever it is due and the heartbeat of session 2 goes on for ever, and a
\* synchronous block runs to its end.
FairLifecycle ==
    /\ SF_vars(DiscoverRead(1)) /\ WF_vars(DiscoverWrite(1))
    /\ WF_vars(RegisterWrite(1)) /\ WF_vars(DeregisterWrite(1))
    /\ WF_vars(HeartbeatWrite(1)) /\ WF_vars(CleanupWrite(1))
    /\ WF_vars(HeartbeatRead(2)) /\ WF_vars(HeartbeatWrite(2))

SpecPeerView == Init /\ [][NextLifecycle]_vars /\ FairLifecycle

\* One session and clients that send any body: session 1 starts and serves
\* /add-endpoint and /remove-endpoint requests whose path is a route path, a
\* string without the leading '/', the empty string, a number or missing.
NextRequests ==
    \/ StartServer(1) \/ Probe(1) \/ Release(1) \/ Listen(1)
    \/ RegisterRead(1) \/ RegisterWrite(1)
    \/ \E path \in BodyPaths : PostAddEndpoint(1, path, 1)
    \/ \E path \in BodyPaths : PostRemoveEndpoint(1, path)

SpecRequests == InitRouter /\ [][NextRequests]_vars

\* Two sessions on a host whose ports other programs take and give up: both
\* start and heartbeat, session 1 stops.
NextPorts ==
    \/ \E c \in Ports : Occupy(c) \/ Vacate(c)
    \/ \E p \in Procs :
        \/ StartServer(p) \/ Probe(p) \/ Release(p) \/ Listen(p)
        \/ RegisterRead(p) \/ RegisterWrite(p)
        \/ HeartbeatRead(p) \/ HeartbeatWrite(p)
    \/ StopServer(1) \/ DeregisterWrite(1) \/ CloseDone(1)

SpecPorts == Init /\ [][NextPorts]_vars

\* Two sessions whose timers all run, the heartbeat of session 1 on time:
\* both start, and their heartbeat, cleanup and discovery callbacks fire.
NextPunctual ==
    \/ TickPunctual
    \/ \E p \in Procs :
        \/ StartServer(p) \/ Probe(p) \/ Release(p) \/ Listen(p)
        \/ RegisterRead(p) \/ RegisterWrite(p)
        \/ HeartbeatRead(p) \/ HeartbeatWrite(p)
        \/ CleanupRead(p) \/ CleanupWrite(p)
        \/ DiscoverRead(p) \/ DiscoverWrite(p)

SpecPunctual == Init /\ [][NextPunctual]_vars

\* ============================================================= properties
Listening(p) == server[p] = "listening"
\* startServer has completed successfully and stopServer has not begun.
Running(p) == server[p] = "listening" /\ outcome[p] = "started"
\* The process has not stopped its session and is not stopping it.
Live(p) == startPc[p] \notin {"stopping", "closing"} /\ outcome[p] # "stopped"
OwnId(p) == sessionInfo[p].id
OwnRecordOk(p) ==
    /\ OwnId(p) \in DOMAIN registry
    /\ registry[OwnId(p)].port = sessionInfo[p].serverPort

\* C1: two sessions whose startServer executions overlap never both listen on
\* the same port.
C1_NoSharedPort ==
    \A p \in Procs : \A q \in Procs \ {p} :
        (Listening(p) /\ Listening(q))
            => sessionInfo[p].serverPort # sessionInfo[q].serverPort

\* Both sessions probed the same port while it was free; one of them listens
\* on it and the other one's bind failed.
C1_Witness ==
    \E p \in Procs : \E q \in Procs \ {p} :
        /\ Listening(p) /\ server[q] = "failed"
        /\ sessionInfo[p].serverPort = sessionInfo[q].serverPort

\* C2: the port findAvailablePortAndBind returns can be bound by the listen
\* step that follows, whatever other sessions do meanwhile.
C2_ProbedPortBinds == \A p \in Procs : outcome[p] # "bindError"

C5_CleanupRemovesStale ==
    [][\A q \in Procs :
        (rmw[q] = "cleanup" /\ rmw'[q] = "none")
            => \A i \in (DOMAIN buf[q]) \ {OwnId(q)} :
                ((now - buf[q][i].lastSeen) * UnitMs > CleanupStaleMs)
                    => i \notin DOMAIN registry']_vars

\* A running session's cleanup tick has read a stale record of another
\* session.
C5_Witness ==
    \E q \in Procs : \E i \in (DOMAIN buf[q]) \ {OwnId(q), EmptyId} :
        /\ rmw[q] = "cleanup" /\ Running(q)
        /\ (now - buf[q][i].lastSeen) * UnitMs > CleanupStaleMs

\* C6: a process writes its record to the store only while its server is
\* bound to the record's port.
C6_RecordWrittenOnlyWhenBound ==
    [][\A p \in Procs :
        (rmw[p] \in {"register", "heartbeat"} /\ rmw'[p] = "none")
            => /\ sessionInfo[p].serverPort \in Ports
               /\ portTable[sessionInfo[p].serverPort] = <<p, "srv">>]_vars

\* C7: no two records of live sessions in the store carry the same port.
C7_LivePortsDistinct ==
    \A p \in Procs : \A q \in Procs \ {p} :
        (/\ Live(p) /\ Live(q)
         /\ OwnId(p) # EmptyId /\ OwnId(q) # EmptyId
         /\ OwnId(p) \in DOMAIN registry /\ OwnId(q) \in DOMAIN registry)
            => registry[OwnId(p)].port # registry[OwnId(q)].port

\* The dynamic layers of the routing table that carry the path.
DynamicLayers(st, path) == {i \in 1..Len(st) : st[i].dyn /\ st[i].path = path}

\* C8: a GET to a path right after its successful /add-endpoint is answered
\* by the new dynamic handler with the given payload.
C8_AddThenGetServesPayload ==
    [][\A p \in Procs : \A path \in Paths : \A response \in Payloads :
        (AddEndpoint(p, path, response) /\ lastReq'[p].status = 200)
            => LET r == GetResponse(stack'[p], path)
               IN r.status = 200 /\ r.dyn /\ r.servedPath = path
                    /\ r.response = response]_vars

\* C9: the paths served by dynamic handlers in the routing table are the keys
\* of dynamicEndpoints.
C9_RoutesMatchBookkeeping ==
    \A p \in Procs :
        {path \in Paths : DynamicLayers(stack[p], path) # {}} = DOMAIN dynamicEndpoints[p]

\* C10: registering a path a second time with another payload leaves one
\* dynamic handler for the path, and a GET to the path returns the second
\* payload.
C10_ReRegisterServesSecond ==
    [][\A p \in Procs : \A path \in Paths : \A response \in Payloads :
        (/\ lastReq[p].op = "add" /\ lastReq[p].status = 200
         /\ lastReq[p].path = path /\ lastReq[p].payload # response
         /\ AddEndpoint(p, path, response) /\ lastReq'[p].status = 200)
            => /\ Cardinality(DynamicLayers(stack'[p], path)) = 1
               /\ GetResponse(stack'[p], path).dyn
               /\ GetResponse(stack'[p], path).response = response]_vars

\* C11: when a cleanup or discovery write of any process evicts a session's
\* record from the store, the session has no dynamic endpoint afterwards
\* (dynamicEndpoints is empty and the routing table holds no dynamic layer).
C11_EvictionRemovesEndpoints ==
    [][\A p \in Procs :
        (/\ OwnId(p) # EmptyId
         /\ OwnId(p) \in DOMAIN registry /\ OwnId(p) \notin DOMAIN registry'
         /\ \E q \in Procs : rmw[q] \in {"cleanup", "discover"} /\ rmw'[q] = "none")
            => /\ dynamicEndpoints'[p] = EmptyRegistry
               /\ DynamicCount(stack'[p]) = 0]_vars

\* C12: once stopServer has completed, the session has no dynamic endpoint:
\* dynamicEndpoints is empty and the routing table holds no dynamic layer,
\* whatever requests were handled while the listening socket was closing.
C12_NoEndpointAfterStop ==
    \A p \in Procs :
        outcome[p] = "stopped"
            => dynamicEndpoints[p] = EmptyRegistry /\ DynamicCount(stack[p]) = 0

\* The session ids of the entries of a results array.
ResultIds(res) == {res[k].sessionId : k \in 1..Len(res)}

\* C13: a broadcast that has returned holds exactly one entry for every peer
\* that was in the peer table when it was issued, whatever discovery, heartbeat
\* and stop steps of the session ran while it was in flight.
C13_OneEntryPerIssuedPeer ==
    \A p \in Procs :
        bcPc[p] = "returned"
            => /\ Len(results[p]) = Cardinality(bcIssued[p])
               /\ ResultIds(results[p]) = bcIssued[p]

Handled(e) == e.status \in {200, 500}

C16_ReactionFailureKeepsResult ==
    \A p \in Procs :
        LET e == lastExec[p]
            first == RunCode(e.code)
            second == RunReaction(e.onResult, first.value)
        IN (Handled(e) /\ first.ok /\ e.onResult # "" /\ ~second.ok)
            => /\ e.result = ToJson(first.value)
               /\ e.success # False
               /\ e.error = second.error

\* C17: a session whose startServer has completed serves POST
\* /exec-with-action with the two-phase handler.
C17_ExecWithActionRouted ==
    \A p \in Procs :
        Running(p) => FirstMatch(stack[p], "POST", "/exec-with-action") # 0

\* C18: a handler that reads the registry while the file is missing,
\* inaccessible or not JSON gets the empty mapping and goes on: the session's
\* server and its cleanup timer stay as they are and, where the handler
\* writes, its read-modify-write is under way.
C18_DamagedStoreReadsEmpty ==
    [][\A p \in Procs :
        /\ (rmw[p] = "none" /\ rmw'[p] # "none" /\ fileState # "ok")
                => /\ buf'[p] = EmptyRegistry
                   /\ server'[p] = server[p]
                   /\ registryCleanupInterval'[p] = registryCleanupInterval[p]
        /\ (DiscoverRead(p) /\ fileState # "ok")
                => /\ meshPeers'[p] = EmptyRegistry /\ rmw'[p] = "none"
                   /\ discoveryInterval'[p] = discoveryInterval[p]]_vars

\* A running session is inside a read-modify-write that read a damaged file
\* which held a record before the damage.
C18_Witness ==
    \E p \in Procs :
        /\ Running(p) /\ rmw[p] # "none" /\ buf[p] = EmptyRegistry
        /\ fileState \in {"denied", "corrupt"} /\ registry # EmptyRegistry

\* The ports on which a process has a listening HTTP server, and the records
\* in the store that carry an id the process generated.
OwnServers(p) == {c \in Ports : portTable[c] = <<p, "srv">>}
OwnRecords(p) == {i \in DOMAIN registry : i[1] = p}

\* C19: a process has at most one listening HTTP server and at most one own
\* record in the store, however its startServer invocations overlap.
C19_OneServerOneRecord ==
    \A p \in Procs :
        Cardinality(OwnServers(p)) <= 1 /\ Cardinality(OwnRecords(p)) <= 1

C21_NoTimerAfterStop ==
    [][\A p \in Procs :
        (outcome[p] = "stopped" /\ rmw[p] = "none")
            => rmw'[p] \notin {"heartbeat", "discover", "cleanup"}]_vars

\* C22: whenever the server of a session is running, after whatever starts and
\* stops came before, the session's heartbeat timer is armed.
C22_HeartbeatWhileRunning ==
    \A p \in Procs : Running(p) => heartbeatInterval[p]

\* C23: the heartbeat interval is smaller than the staleness threshold of the
\* registry cleanup, and the threshold is at least three heartbeat intervals:
\* a record in the store that is younger than three heartbeat intervals is
\* not stale for a cleanup tick.
C23_ThresholdMargin ==
    /\ HeartbeatMs < CleanupStaleMs
    /\ \A i \in DOMAIN registry :
        AgeMs(registry[i].lastSeen) < 3 * HeartbeatMs => i \notin CleanupStale(registry)

\* The peer table peers holds exactly the records of sessions but the one of
\* id own, each with the port and the lastSeen of its record.
PeersMatch(peers, sessions, own) ==
    /\ DOMAIN peers = (DOMAIN sessions) \ {own}
    /\ \A i \in DOMAIN peers :
        /\ peers[i].port = sessions[i].port
        /\ peers[i].lastHeartbeat = sessions[i].lastSeen
        /\ peers[i].isConnected

\* C24: right after a discovery tick the ids of the session's peer table are
\* the ids of the records the tick read from the store, without the session's
\* own id, and every peer carries the values of its record.
C24_PeersAreStoreMinusOwn ==
    [][\A p \in Procs :
        /\ (DiscoverRead(p) /\ rmw'[p] = "none")
                => PeersMatch(meshPeers'[p], ReadRegistry, OwnId(p))
        /\ (rmw[p] = "discover" /\ rmw'[p] = "none")
                => PeersMatch(meshPeers'[p], buf[p], OwnId(p))]_vars

\* C24 as amended: right after a discovery tick the ids of the peer table are
\* the ids of the records read whose lastSeen is less than two minutes old,
\* without the session's own id, and every peer carries the values of its
\* record.
C24_PeersAreFreshStoreMinusOwn ==
    [][\A p \in Procs :
        /\ (DiscoverRead(p) /\ rmw'[p] = "none")
                => PeersMatch(meshPeers'[p], FreshSessions(ReadRegistry), OwnId(p))
        /\ (rmw[p] = "discover" /\ rmw'[p] = "none")
                => PeersMatch(meshPeers'[p], FreshSessions(buf[p]), OwnId(p))]_vars

\* A discovery tick of a running session has read a stale record and the
\* fresh record of a peer, and its peer table holds a peer that is not among
\* the fresh records.
C24_Witness ==
    \E p \in Procs :
        /\ rmw[p] = "discover" /\ Running(p)
        /\ (DOMAIN FreshSessions(buf[p])) \ {OwnId(p)} # {}
        /\ (DOMAIN meshPeers[p]) \ (DOMAIN FreshSessions(buf[p])) # {}

\* C25: whenever sessions 1 and 2 run and the record of session 2 is in the store,
\* session 1 comes to have session 2 in its peer table, unless the record
\* leaves the store or session 1 stops running first.
C25_PeerViewConverges ==
    (Running(1) /\ Running(2) /\ OwnId(2) \in DOMAIN registry)
        ~> \/ OwnId(2) \in DOMAIN meshPeers[1]
           \/ OwnId(2) \notin DOMAIN registry
           \/ ~Running(1)

\* C26: a process generates its session id once: every record a process
\* writes to the store under a generated id (by registerSession or by its
\* heartbeat) carries the id of the process's first start, <<p, 1>>.
C26_OneIdPerProcess ==
    [][\A p \in Procs :
        (rmw[p] \in {"register", "heartbeat"} /\ rmw'[p] = "none" /\ OwnId(p) # EmptyId)
            => OwnId(p) = <<p, 1>>]_vars

\* C27: a POST /add-endpoint whose path is missing, not a string or does not
\* begin with '/' is answered with status 400 and leaves the routing table and
\* the dynamicEndpoints map as they were.
C27_InvalidPathRejected ==
    [][\A path \in BodyPaths : \A response \in Payloads :
        (~ValidPath(path) /\ PostAddEndpoint(1, path, response))
            => /\ lastReq'[1].status = 400
               /\ stack' = stack /\ dynamicEndpoints' = dynamicEndpoints]_vars

C29_ExhaustedStartFails ==
    [][\A p \in Procs :
        /\ (Probe(p) /\ cand[p] = PortMax /\ portTable[PortMax] # Free)
                => outcome'[p] = "exhausted" /\ startPc'[p] = "idle"
        /\ (StartServer(p) \/ Probe(p))
                => /\ sessionInfo'[p] = sessionInfo[p]
                   /\ registry' = registry
                   /\ server[p] = "null" /\ server'[p] = "null"]_vars

\* A startServer has failed for lack of a port while every port of the range
\* is held by another session or another program.
C29_Witness ==
    \E p \in Procs :
        /\ outcome[p] = "exhausted" /\ server[p] = "null"
        /\ \A c \in Ports : portTable[c] # Free /\ portTable[c][1] # p
        /\ \E c \in Ports : portTable[c][2] = "srv"

\* C30: while session 1 runs with its heartbeat on time, no cleanup tick and
\* no discovery pruning of any session finds the record of session 1 stale
\* and deletes it from the store.
C30_PunctualNeverEvicted ==
    [][\A q \in Procs :
        /\ (Running(1) /\ rmw[q] = "cleanup" /\ rmw'[q] = "none")
                => OwnId(1) \notin CleanupStale(buf[q])
        /\ (Running(1) /\ rmw[q] = "discover" /\ rmw'[q] = "none")
                => OwnId(1) \notin (DOMAIN buf[q]) \ (DOMAIN FreshSessions(buf[q]))]_vars

\* C31: a peer of the running session 2 whose record is in the store, is at
\* most one heartbeat interval old and stays in the store is in the peer
\* table of session 2 after every step, whichever callback of session 2 runs.
C31_RefreshedPeerStays ==
    [][(/\ Running(1) /\ Running(2)
        /\ OwnId(1) \in DOMAIN meshPeers[2]
        /\ OwnId(1) \in DOMAIN registry /\ OwnId(1) \in DOMAIN registry'
        /\ AgeMs(registry[OwnId(1)].lastSeen) <= HeartbeatMs)
            => OwnId(1) \in DOMAIN meshPeers'[2]]_vars

\* C32: when a heartbeat tick of a running session has written, the store
\* holds the session's record again, with the session's port and the lastSeen
\* of that tick, whatever removed the record before.
C32_HeartbeatRestoresRecord ==
    [][\A p \in Procs :
        (Running(p) /\ rmw[p] = "heartbeat" /\ rmw'[p] = "none")
            => /\ OwnId(p) \in DOMAIN registry'
               /\ registry'[OwnId(p)] = Record(sessionInfo[p])
               /\ registry'[OwnId(p)].lastSeen = now]_vars

\* The record of a running session is not in the store, and the session's
\* heartbeat tick has read the store without it.
C32_Witness ==
    \E p \in Procs :
        /\ Running(p) /\ rmw[p] = "heartbeat"
        /\ OwnId(p) \notin DOMAIN registry
        /\ OwnId(p) \notin DOMAIN buf[p]


\* C33: a broadcast to the path of a dynamic endpoint registered on a peer
\* that answers yields, for that peer, a success entry with the endpoint's
\* payload.
C33_BroadcastReachesDynamicEndpoint ==
    [][\A i \in DOMAIN meshPeers[1] :
        (/\ bcPc'[1] = "await" /\ bcDone'[1] # bcDone[1] /\ bcCur'[1].sessionId = i
         /\ lastReq'[1].op = "broadcast"
         /\ meshPeers[1][i].port \in Ports
         /\ portTable[meshPeers[1][i].port] = <<2, "srv">>
         /\ lastReq'[1].path \in DOMAIN dynamicEndpoints[2]
         /\ bcCur'[1].message # "Timeout")
            => /\ bcCur'[1].kind = "result"
               /\ bcCur'[1].response = dynamicEndpoints[2][lastReq'[1].path]]_vars


\* The request lines a text holds: the pieces before each newline, blank
\* lines left out.
RECURSIVE LinesOf(_)
LinesOf(text) ==
    IF \A k \in 1..Len(text) : text[k] # Newline THEN << >>
    ELSE LET idx == CHOOSE k \in 1..Len(text) :
                        text[k] = Newline /\ \A j \in 1..(k - 1) : text[j] # Newline
             line == SubSeq(text, 1, idx - 1)
         IN (IF line = << >> THEN << >> ELSE <<line>>)
                \o LinesOf(SubSeq(text, idx + 1, Len(text)))

\* The response the claim gives a line: the id of a request that has one,
\* 'invalid-json' for a line that is not JSON, 'missing id' otherwise.
Owed(line) ==
    LET req == JsonParse(line)
    IN IF ~req.valid THEN BridgeError(Null, "invalid-json")
       ELSE IF req.isNull \/ req.id = Undefined THEN BridgeError(Null, "missing id")
       ELSE BridgeError(req.id, "")
Answers(r, owed) ==
    /\ r.id = owed.id
    /\ owed.id = Null => r.error = owed.error /\ ~r.ok

\* C34: once nothing is awaited, every request line (a line that is not
\* blank) received on the connection has exactly one response line: with the
\* request's id when it has one, with id null and 'invalid-json' when the line
\* is not JSON, with id null and 'missing id' when the request has no id.
C34_OneResponsePerLine ==
    pending = << >> =>
        LET lines == LinesOf(received)
        IN /\ Len(sent) = Len(lines)
           /\ \A k \in 1..Len(lines) :
                Cardinality({j \in 1..Len(sent) : Answers(sent[j], Owed(lines[k]))})
                    = Cardinality({j \in 1..Len(lines) : Owed(lines[j]) = Owed(lines[k])})


\* C35: the write of registerSession, of the heartbeat and of deregisterSession
\* of a session leaves every other session's record that is in the store in
\* the store, unchanged.
C35_WriteKeepsOtherRecords ==
    [][\A p \in Procs :
        (rmw[p] \in {"register", "heartbeat", "deregister"} /\ rmw'[p] = "none")
            => \A i \in (DOMAIN registry) \ {OwnId(p)} :
                    i \in DOMAIN registry' /\ registry'[i] = registry[i]]_vars


\* C36 as stated: no step of a discovery tick changes the persisted store.
C36_DiscoveryOnlyReads ==
    [][\A p \in Procs :
        (DiscoverRead(p) \/ (rmw[p] = "discover" /\ rmw'[p] = "none"))
            => registry' = registry]_vars

\* C36: a discovery tick leaves the persisted store unchanged when every
\* record it reads is younger than two minutes: the read changes nothing in
\* the store and no write follows it.  Otherwise the tick writes the records
\* younger than two minutes back as the store.
C36_DiscoveryWritesOnlyWhenStale ==
    [][\A p \in Procs :
        /\ DiscoverRead(p) => registry' = registry
        /\ (DiscoverRead(p) /\ DOMAIN FreshSessions(registry) = DOMAIN registry)
                => rmw'[p] = "none"
        /\ (rmw[p] = "discover" /\ rmw'[p] = "none")
                => /\ registry' = FreshSessions(buf[p])
                   /\ DOMAIN buf[p] # DOMAIN registry']_vars

\* A discovery tick has filled a peer table from a store whose records are all
\* younger than two minutes, and the store still holds what it held.
C36_Witness ==
    \E p \in Procs :
        /\ rmw[p] = "none" /\ DOMAIN meshPeers[p] # {}
        /\ DOMAIN FreshSessions(registry) = DOMAIN registry
        /\ DOMAIN meshPeers[p] = (DOMAIN registry) \ {OwnId(p)}
        /\ now > 0


\* C37: whatever /add-endpoint and /remove-endpoint requests a session has
\* served, each built-in route is still answered by its built-in handler.
C37_BuiltinRoutesStay ==
    \A p \in Procs : \A k \in 1..Len(BuiltinStack) :
        LET i == FirstMatch(stack[p], BuiltinStack[k].method, BuiltinStack[k].path)
        IN i # 0 /\ ~stack[p][i].dyn


\* C38: after the listen step of startServer has failed with a bind error,
\* isServerRunning() is false and startServer's entry test (this.server is
\* not set) lets a later call through to port acquisition.
C38_BindErrorLeavesStopped ==
    \A p \in Procs :
        outcome[p] = "bindError" => ~isServerRunning(p) /\ server[p] = "null"


\* C39: every record of a session's peer table has isConnected true, so the
\* loop of broadcastToMesh sends to every peer of the table it comes to.
C39_PeersConnected ==
    \A p \in Procs : \A i \in DOMAIN meshPeers[p] : meshPeers[p][i].isConnected

\* A running session has refreshed its lastSeen at the current time and holds
\* a peer whose record is from an earlier time, with a broadcast under way.
C39_Witness ==
    \E p \in Procs :
        /\ Running(p) /\ rmw[p] = "none"
        /\ now > 0 /\ sessionInfo[p].lastSeen = now
        /\ \E i \in DOMAIN meshPeers[p] : meshPeers[p][i].lastHeartbeat < now
        /\ bcPc[p] = "await"


\* C40: between the operations of a session whose startServer or stopServer
\* has completed, sessionInfo.meshPeers is the set of keys of its meshPeers
\* table.
C40_PeerListMatchesTable ==
    \A p \in Procs :
        (rmw[p] = "none" /\ startPc[p] = "idle" /\ outcome[p] \in {"started", "stopped"})
            => sessionInfo[p].meshPeers = DOMAIN meshPeers[p]

====
